---- MODULE Spec2Model ----
(***************************************************************************)
(* Event extraction from a stim (trigger) channel and the event algebra of *)
(* mne/event.py.  Every function is one action.  The initial states hold   *)
(* a pending call with its arguments drawn from small sets; the action     *)
(* runs the whole function as the operators below compute it and records   *)
(* the returned rows, the raised error and the caller's array as the call  *)
(* left it.                                                                *)
(*                                                                         *)
(* Arrays are sequences; an (n, 3) array is a sequence of triples          *)
(* <<sample, before, after>>.  A 2-D data array is a sequence of channels. *)
(* Python's None is the empty sequence <<>> and a given integer v is <<v>>.*)
(* numpy positions are 0-based; sequences here are 1-based, so the step    *)
(* between data[i] and data[i+1] (1-based) is numpy's idx = i - 1 and the  *)
(* first sample holding the new value is numpy's position i.               *)
(***************************************************************************)
EXTENDS Integers, Sequences, FiniteSets, TLC

VARIABLES
    op,      \* the function being called
    pc,      \* "call" before the function has run, "done" after it
    args,    \* the arguments of the call
    out,     \* the rows it returned (<<>> before the call and when it raised)
    err,     \* "none", or the exception it raised
    after,   \* the caller's input array as the call left it
    file     \* the lines of the text file write_events has written

vars == <<op, pc, args, out, err, after, file>>

(***************************************************************************)
(* Bounds of the model.                                                    *)
(***************************************************************************)
MaxLen == 4       \* samples of a find_events channel
MaxStepLen == 3   \* samples per channel of a find_stim_steps matrix
MaxVal == 2       \* largest trigger code of the enumerated channels

(***************************************************************************)
(* numpy helpers.                                                          *)
(***************************************************************************)
Abs(x) == IF x < 0 THEN -x ELSE x

Last(s) == s[Len(s)]

\* np.where(mask)[0]: the positions of a set, ascending.
RECURSIVE Where(_)
Where(K) ==
    IF K = {} THEN <<>>
    ELSE LET m == CHOOSE x \in K : \A y \in K : x <= y
         IN  <<m>> \o Where(K \ {m})

\* a[idx] for an index array idx.
Take(a, idx) == [k \in 1..Len(idx) |-> a[idx[k]]]

\* a[keep] for a boolean array given as the set of its True positions.
Compress(a, K) == Take(a, Where(K \cap DOMAIN a))

\* All sequences over S with 1..n elements, and with 0..n elements.
SeqsUpTo(S, n) == UNION {[1..k -> S] : k \in 1..n}

SeqsFrom0(S, n) == UNION {[1..k -> S] : k \in 0..n}

\* np.bitwise_and on Python integers (two's complement, unbounded).
RECURSIVE BitwiseAnd(_, _)
BitwiseAnd(a, b) ==
    IF a = 0 \/ b = 0 THEN 0
    ELSE IF a = -1 THEN b
    ELSE IF b = -1 THEN a
    ELSE 2 * BitwiseAnd(a \div 2, b \div 2) + (a % 2) * (b % 2)

\* np.bitwise_not.
BitwiseNot(m) == -m - 1

(***************************************************************************)
(* _find_stim_steps                                                        *)
(***************************************************************************)
\* Mutant of ChangedIdx: np.any in place of np.all.
ChangedIdxAnyChannel(data) ==
    {i \in 1..(Len(data[1]) - 1) :
        \E c \in DOMAIN data : data[c][i + 1] - data[c][i] # 0}

\* np.where(np.all(np.diff(data, axis=1) != 0, axis=0))[0], 1-based.
ChangedIdx(data) ==
    {i \in 1..(Len(data[1]) - 1) :
        \A c \in DOMAIN data : data[c][i + 1] - data[c][i] # 0}

\* np.c_[idx, pre_step, post_step] after idx += 1 and idx += first_samp.
RawSteps(data, first_samp) ==
    LET idx == Where(ChangedIdx(data))
    IN  [k \in 1..Len(idx) |->
            <<idx[k] + first_samp, data[1][idx[k]], data[1][idx[k] + 1]>>]

PadStart(steps, pad_start) ==
    IF pad_start # <<>> /\ steps[1][2] # pad_start[1]
    THEN <<<<0, pad_start[1], steps[1][2]>>>> \o steps
    ELSE steps

PadStop(steps, pad_stop, data, first_samp) ==
    IF pad_stop # <<>> /\ Last(steps)[3] # pad_stop[1]
    THEN Append(steps, <<Len(data[1]) + first_samp, Last(steps)[3], pad_stop[1]>>)
    ELSE steps

\* Mutant of MergeSteps: diff < abs(merge) in place of diff <= abs(merge).
MergeStepsStrictlyCloser(steps, merge) ==
    LET n     == Len(steps)
        where == {k \in 1..(n - 1) : steps[k + 1][1] - steps[k][1] < Abs(merge)}
        moved == IF merge > 0
                 THEN [k \in 1..n |->
                         IF (k - 1) \in where
                         THEN <<steps[k][1], steps[k - 1][2], steps[k][3]>>
                         ELSE steps[k]]
                 ELSE [k \in 1..n |->
                         IF k \in where
                         THEN <<steps[k][1], steps[k][2], steps[k + 1][3]>>
                         ELSE steps[k]]
        keep  == IF merge > 0
                 THEN {k \in 1..n : k \notin where}
                 ELSE {k \in 1..n : (k - 1) \notin where}
        is_step == {k \in 1..n : moved[k][2] # moved[k][3]}
    IN  IF merge # 0 /\ where # {}
        THEN Compress(moved, keep \cap is_step)
        ELSE steps

MergeSteps(steps, merge) ==
    LET n     == Len(steps)
        where == {k \in 1..(n - 1) : steps[k + 1][1] - steps[k][1] <= Abs(merge)}
        moved == IF merge > 0
                 THEN [k \in 1..n |->
                         IF (k - 1) \in where
                         THEN <<steps[k][1], steps[k - 1][2], steps[k][3]>>
                         ELSE steps[k]]
                 ELSE [k \in 1..n |->
                         IF k \in where
                         THEN <<steps[k][1], steps[k][2], steps[k + 1][3]>>
                         ELSE steps[k]]
        keep  == IF merge > 0
                 THEN {k \in 1..n : k \notin where}
                 ELSE {k \in 1..n : (k - 1) \notin where}
        is_step == {k \in 1..n : moved[k][2] # moved[k][3]}
    IN  IF merge # 0 /\ where # {}
        THEN Compress(moved, keep \cap is_step)
        ELSE steps

_find_stim_steps(data, first_samp, pad_start, pad_stop, merge) ==
    IF ChangedIdx(data) = {} THEN <<>>
    ELSE MergeSteps(
            PadStop(PadStart(RawSteps(data, first_samp), pad_start),
                    pad_stop, data, first_samp),
            merge)

\* find_stim_steps: rectify negative data, then _find_stim_steps.
Rectify(data) ==
    IF \E c \in DOMAIN data : \E i \in DOMAIN data[c] : data[c][i] < 0
    THEN [c \in DOMAIN data |-> [i \in DOMAIN data[c] |-> Abs(data[c][i])]]
    ELSE data

find_stim_steps(data, first_samp, pad_start, pad_stop, merge) ==
    _find_stim_steps(Rectify(data), first_samp, pad_start, pad_stop, merge)

(***************************************************************************)
(* _mask_trigs.  A mask argument is a record [type, val]: type is the      *)
(* Python type of the object passed ("int", "bool", "float", "NoneType")   *)
(* and val its numeric value.  isinstance(mask, int) holds for int and for *)
(* bool, which subclasses int.                                             *)
(***************************************************************************)
\* Mutant of IsInstanceInt: negative integers rejected as well.
IsNonNegativeInt(mask) == mask.type \in {"int", "bool"} /\ mask.val >= 0

IsInstanceInt(mask) == mask.type \in {"int", "bool"}

\* Mutant of MaskComplement: the mask itself, not its complement.
MaskNotComplemented(mask) == mask.val

\* np.bitwise_not(mask): two's complement for an int, logical not for a bool.
MaskComplement(mask) ==
    IF mask.type = "bool" THEN 1 - mask.val ELSE BitwiseNot(mask.val)

\* events[:, 1:] = np.bitwise_and(events[:, 1:], mask), done in place.
MaskedInPlace(events, nmask) ==
    [k \in 1..Len(events) |->
        <<events[k][1], BitwiseAnd(events[k][2], nmask),
          BitwiseAnd(events[k][3], nmask)>>]

\* The call's outcome: the returned array, the exception, and the caller's
\* array afterwards (the masking assigns into the caller's array).
_mask_trigs(events, mask) ==
    IF ~IsInstanceInt(mask)
    THEN [ret |-> <<>>, err |-> "TypeError", events |-> events]
    ELSE IF Len(events) = 0
    THEN [ret |-> events, err |-> "none", events |-> events]
    ELSE LET masked == MaskedInPlace(events, MaskComplement(mask))
         IN  [ret |-> Compress(masked,
                        {k \in 1..Len(masked) : masked[k][2] # masked[k][3]}),
              err |-> "none",
              events |-> masked]

(***************************************************************************)
(* _find_events and find_events.  consecutive is "increasing", "True" or   *)
(* "False"; min_samples = min_duration * sfreq is a real, carried as twice *)
(* its value (min_samples_x2) so that halves of a sample are integers.     *)
(***************************************************************************)
\* merge = int(min_samples // 1), minus one when min_samples is integral.
MergeOf(min_samples_x2) ==
    IF min_samples_x2 > 0
    THEN LET merge == min_samples_x2 \div 2
         IN  IF 2 * merge = min_samples_x2 THEN merge - 1 ELSE merge
    ELSE 0

\* data.astype(np.uint16).astype(np.int)
UintCast(data) ==
    [c \in DOMAIN data |-> [i \in DOMAIN data[c] |-> data[c][i] % 65536]]

\* Mutant of Onsets: consecutive=True handled like 'increasing'.
OnsetsTrueAsIncreasing(events, consecutive) ==
    IF consecutive \in {"increasing", "True"}
    THEN {k \in 1..Len(events) : events[k][3] > events[k][2]}
    ELSE {k \in 1..Len(events) : events[k][2] = 0}

Onsets(events, consecutive) ==
    IF consecutive = "increasing"
    THEN {k \in 1..Len(events) : events[k][3] > events[k][2]}
    ELSE IF consecutive = "True"
    THEN {k \in 1..Len(events) : events[k][3] > 0}
    ELSE {k \in 1..Len(events) : events[k][2] = 0}

Offsets(events, consecutive) ==
    IF consecutive = "increasing"
    THEN {k \in 1..Len(events) :
            /\ (events[k][3] > events[k][2] \/ events[k][3] = 0)
            /\ events[k][2] > 0}
    ELSE IF consecutive = "True"
    THEN {k \in 1..Len(events) : events[k][2] > 0}
    ELSE {k \in 1..Len(events) : events[k][3] = 0}

\* delete orphaned offset at the beginning
TrimOffsets(onset_idx, offset_idx) ==
    IF onset_idx[1] > offset_idx[1] THEN Tail(offset_idx) ELSE offset_idx

\* delete orphaned onset at the end
TrimOnsets(onset_idx, offset_idx) ==
    IF Last(onset_idx) > Last(offset_idx)
    THEN SubSeq(onset_idx, 1, Len(onset_idx) - 1)
    ELSE onset_idx

\* Mutant of OffsetRows: the event ids of the onsets are never copied in.
OffsetRowsKeepOwnId(events, onset_idx, offset_idx) ==
    [ret |-> [k \in 1..Len(offset_idx) |->
                <<events[offset_idx[k]][1] - 1, events[offset_idx[k]][2],
                  events[offset_idx[k]][3]>>],
     err |-> "none"]

\* output == 'offset': events[offset_idx] with column 1 <- column 2,
\* column 2 <- event_id (numpy broadcasts a length-1 event_id over all rows
\* and raises ValueError for any other length mismatch), sample - 1.
OffsetRows(events, onset_idx, offset_idx) ==
    LET event_id == [k \in 1..Len(onset_idx) |-> events[onset_idx[k]][3]]
        rows     == Take(events, offset_idx)
    IN  IF Len(event_id) = Len(rows)
        THEN [ret |-> [k \in 1..Len(rows) |->
                        <<rows[k][1] - 1, rows[k][3], event_id[k]>>],
              err |-> "none"]
        ELSE IF Len(event_id) = 1
        THEN [ret |-> [k \in 1..Len(rows) |->
                        <<rows[k][1] - 1, rows[k][3], event_id[1]>>],
              err |-> "none"]
        ELSE [ret |-> <<>>, err |-> "ValueError: broadcast"]

\* The output shaping of _find_events, after orphan trimming.
ShapeOutput(events, onset_idx, offset_idx, output) ==
    IF output = "onset"
    THEN [ret |-> Take(events, onset_idx), err |-> "none"]
    ELSE IF output = "step"
    THEN [ret |-> Compress(events,
                    {onset_idx[k] : k \in 1..Len(onset_idx)}
                    \cup {offset_idx[k] : k \in 1..Len(offset_idx)}),
          err |-> "none"]
    ELSE IF output = "offset"
    THEN OffsetRows(events, onset_idx, offset_idx)
    ELSE [ret |-> <<>>, err |-> "Exception: invalid output"]

\* The masked steps _find_events classifies: the outcome of _mask_trigs.
MaskedSteps(data, first_samp, min_samples_x2, mask, uint_cast) ==
    LET cast  == IF uint_cast THEN UintCast(data) ELSE data
        steps == _find_stim_steps(Rectify(cast), first_samp, <<>>, <<0>>,
                                  MergeOf(min_samples_x2))
    IN  _mask_trigs(steps, mask)

_find_events(data, first_samp, output, consecutive, min_samples_x2, mask, uint_cast) ==
    LET m          == MaskedSteps(data, first_samp, min_samples_x2, mask, uint_cast)
        events     == m.ret
        onset_idx  == Where(Onsets(events, consecutive))
        offset_idx == Where(Offsets(events, consecutive))
        offsets2   == TrimOffsets(onset_idx, offset_idx)
        onsets2    == TrimOnsets(onset_idx, offsets2)
    IN  IF m.err # "none" THEN [ret |-> <<>>, err |-> m.err]
        ELSE IF Len(onset_idx) = 0 \/ Len(offset_idx) = 0
        THEN [ret |-> <<>>, err |-> "none"]
        ELSE IF Len(offsets2) = 0
        THEN [ret |-> <<>>, err |-> "IndexError"]    \* offset_idx[-1]
        ELSE ShapeOutput(events, onsets2, offsets2, output)

\* Mutant of NShortEvents: <= in place of <.
NShortEventsInclusive(events, shortest_event) ==
    Cardinality({k \in 1..(Len(events) - 1) :
                    events[k + 1][1] - events[k][1] <= shortest_event})

\* np.sum(np.diff(events[:, 0]) < shortest_event)
NShortEvents(events, shortest_event) ==
    Cardinality({k \in 1..(Len(events) - 1) :
                    events[k + 1][1] - events[k][1] < shortest_event})

find_events(data, first_samp, output, consecutive, min_samples_x2, shortest_event, mask, uint_cast) ==
    LET r == _find_events(data, first_samp, output, consecutive,
                          min_samples_x2, mask, uint_cast)
    IN  IF r.err # "none" THEN r
        ELSE IF NShortEvents(r.ret, shortest_event) > 0
        THEN [ret |-> <<>>, err |-> "ValueError: short events"]
        ELSE r

(***************************************************************************)
(* merge_events.  ids is a sequence of event ids.                          *)
(***************************************************************************)
\* for i in ids: mask = events[:, col] == i; events_out[mask, col] = new_id
\* (col is the 1-based column: 2 and 3 are numpy's columns 1 and 2).
RECURSIVE RelabelColumn(_, _, _, _, _)
RelabelColumn(events_out, events, col, ids, new_id) ==
    IF ids = <<>> THEN events_out
    ELSE RelabelColumn(
            [k \in 1..Len(events_out) |->
                IF events[k][col] = Head(ids)
                THEN [events_out[k] EXCEPT ![col] = new_id]
                ELSE events_out[k]],
            events, col, Tail(ids), new_id)

\* Mutant of IdxTouched: only the id column is tracked.
IdxTouchedIdColumnOnly(events, ids) ==
    {k \in 1..Len(events) : \E j \in 1..Len(ids) : events[k][3] = ids[j]}

\* np.unique(np.concatenate(idx_touched)): the rows matched in either column.
IdxTouched(events, ids) ==
    {k \in 1..Len(events) :
        \E j \in 1..Len(ids) : events[k][2] = ids[j] \/ events[k][3] = ids[j]}

\* Mutant of RowLeq: np.lexsort(events_out.T), the keys not reversed.
RowLeqKeysNotReversed(a, b) ==
    \/ a[3] < b[3]
    \/ a[3] = b[3] /\ a[2] < b[2]
    \/ a[3] = b[3] /\ a[2] = b[2] /\ a[1] <= b[1]

\* The order of np.lexsort(events_out.T[::-1]): column 0 first, then
\* column 1, then column 2, each ascending.
RowLeq(a, b) ==
    \/ a[1] < b[1]
    \/ a[1] = b[1] /\ a[2] < b[2]
    \/ a[1] = b[1] /\ a[2] = b[2] /\ a[3] <= b[3]

\* events_out[np.lexsort(...)]
RECURSIVE SortRows(_)
SortRows(rows) ==
    IF rows = <<>> THEN <<>>
    ELSE LET m == CHOOSE k \in 1..Len(rows) :
                    \A j \in 1..Len(rows) : RowLeq(rows[k], rows[j])
         IN  <<rows[m]>> \o SortRows(SubSeq(rows, 1, m - 1)
                                     \o SubSeq(rows, m + 1, Len(rows)))

merge_events(events, ids, new_id, replace_events) ==
    LET events_out == RelabelColumn(RelabelColumn(events, events, 2, ids, new_id),
                                    events, 3, ids, new_id)
    IN  IF replace_events
        THEN [ret |-> events_out, err |-> "none"]
        ELSE IF ids = <<>>      \* np.concatenate of an empty list
        THEN [ret |-> <<>>, err |-> "ValueError: need at least one array"]
        ELSE [ret |-> SortRows(events_out
                               \o Compress(events, IdxTouched(events, ids))),
              err |-> "none"]

(***************************************************************************)
(* make_fixed_length_events.  raw is a record [first_samp, last_samp];     *)
(* start and stop are the sample indices raw.time_as_index gave for the    *)
(* start and stop times (stop = <<>> for None).  The interval              *)
(* raw.info['sfreq'] * duration is a real, carried as twice its value      *)
(* (interval_x2), and so are the points of the float np.arange.  id is a   *)
(* record [type, val] like a mask argument.                                *)
(***************************************************************************)
Min(a, b) == IF a < b THEN a ELSE b

\* len(raw.times)
NTimes(raw) == raw.last_samp - raw.first_samp + 1

\* the margin with np.floor in place of np.ceil
MarginFloor(interval_x2) == interval_x2 \div 2

\* int(np.ceil(raw.info['sfreq'] * duration))
Margin(interval_x2) == (interval_x2 + 1) \div 2

\* float -> int conversion of astype(int): truncation toward zero
TruncHalves(x2) == IF x2 >= 0 THEN x2 \div 2 ELSE -((-x2) \div 2)

\* np.arange(start, stop, step) with a real step, in halves of a sample
ARangeX2(start, stop, step_x2) ==
    LET n == IF stop > start
             THEN (2 * (stop - start) + step_x2 - 1) \div step_x2
             ELSE 0
    IN  [k \in 1..n |-> 2 * start + (k - 1) * step_x2]

make_fixed_length_events(raw, id, start, stop, interval_x2, first_samp) ==
    LET stop0  == IF stop = <<>> THEN raw.last_samp + 1 ELSE stop[1]
        start1 == IF first_samp THEN start + raw.first_samp ELSE start
        stop1  == IF first_samp
                  THEN Min(stop0 + raw.first_samp, raw.last_samp + 1)
                  ELSE Min(stop0, NTimes(raw))
        stop2  == stop1 - Margin(interval_x2)
        grid   == ARangeX2(start1, stop2 + 1, interval_x2)
        ts     == [k \in DOMAIN grid |-> TruncHalves(grid[k])]
    IN  IF id.type \notin {"int", "bool"}
        THEN [ret |-> <<>>, err |-> "ValueError: id must be an integer"]
        ELSE IF Len(ts) = 0
        THEN [ret |-> <<>>, err |-> "ValueError: No events produced"]
        ELSE [ret |-> [k \in DOMAIN ts |-> <<ts[k], 0, id.val>>],
              err |-> "none"]

(***************************************************************************)
(* define_target_events.  tmin and tmax are given in milliseconds          *)
(* (tmin_ms, tmax_ms) and sfreq in Hz, so that tmin * sfreq is             *)
(* tmin_ms * sfreq / 1000.  The call returns the pair (new_events, lag);   *)
(* a lag entry is <<v>> for the number v and <<>> for np.nan.              *)
(***************************************************************************)
\* int(a / b) for b > 0: truncation toward zero
TruncDiv(a, b) == IF a >= 0 THEN a \div b ELSE -((-a) \div b)

\* ndarray.any() of an (n, 3) array
AnyNonZero(rows) == \E k \in DOMAIN rows : \E c \in 1..3 : rows[k][c] # 0

\* ndarray.any() of the lag array: nan is truthy
AnyLag(lag) == \E k \in DOMAIN lag : lag[k] = <<>> \/ lag[k][1] # 0

\* events[(events[:, 0] > lower) & (events[:, 0] < upper)
\*        & (events[:, 2] == target_id)]
TargetsInWindow(events, lower, upper, target_id) ==
    Compress(events, {k \in DOMAIN events :
                         /\ events[k][1] > lower
                         /\ events[k][1] < upper
                         /\ events[k][3] = target_id})

\* if lag.any(): lag *= tsample  else: lag = np.array([])
ScaleLag(lag, tsample) ==
    IF AnyLag(lag)
    THEN [k \in DOMAIN lag |->
             IF lag[k] = <<>> THEN <<>> ELSE <<lag[k][1] * tsample>>]
    ELSE <<>>

define_target_events(events, reference_id, target_id, sfreq, tmin_ms, tmax_ms, new_id, fill_na) ==
    LET new_id1 == IF new_id = <<>> THEN reference_id ELSE new_id[1]
        tsample == 1000 \div sfreq
        imin    == TruncDiv(tmin_ms * sfreq, 1000)
        imax    == TruncDiv(tmax_ms * sfreq, 1000)
        res(k)  == TargetsInWindow(events, events[k][1] + imin,
                                   events[k][1] + imax, target_id)
        found   == {k \in DOMAIN events :
                       events[k][3] = reference_id /\ AnyNonZero(res(k))}
        filled  == {k \in DOMAIN events :
                       /\ events[k][3] = reference_id
                       /\ ~AnyNonZero(res(k))
                       /\ fill_na # <<>>}
        idx     == Where(found \cup filled)
        new_events == [j \in DOMAIN idx |->
                          <<events[idx[j]][1], events[idx[j]][2],
                            IF idx[j] \in found THEN new_id1 ELSE fill_na[1]>>]
        lag     == [j \in DOMAIN idx |->
                       IF idx[j] \in found
                       THEN <<Abs(events[idx[j]][1] - res(idx[j])[1][1])>>
                       ELSE <<>>]
    IN  [events |-> IF AnyNonZero(new_events) THEN new_events ELSE <<>>,
         lag    |-> ScaleLag(lag, tsample)]

(***************************************************************************)
(* concatenate_events.  events is a sequence of event arrays and           *)
(* events_type the Python type of the object passed ("list" or "tuple").   *)
(***************************************************************************)
\* np.cumsum
RECURSIVE CumSum(_)
CumSum(s) ==
    IF s = <<>> THEN <<>>
    ELSE LET head == CumSum(SubSeq(s, 1, Len(s) - 1))
         IN  Append(head, (IF head = <<>> THEN 0 ELSE Last(head)) + Last(s))

\* the cumulated lengths with last_samps - first_samps in place of
\* last_samps - first_samps + 1
NSampsWithoutLast(first_samps, last_samps) ==
    CumSum([k \in DOMAIN first_samps |-> last_samps[k] - first_samps[k]])

\* n_samps = np.cumsum(last_samps - first_samps + 1)
NSamps(first_samps, last_samps) ==
    CumSum([k \in DOMAIN first_samps |-> last_samps[k] - first_samps[k] + 1])

\* e2 = e.copy(); e2[:, 0] -= f; e2[:, 0] += n + first_samps[0]
Rebased(e, f, n, first0) ==
    [j \in DOMAIN e |-> <<e[j][1] - f + n + first0, e[j][2], e[j][3]>>]

\* the loop over zip(events[1:], first_samps[1:], n_samps[:-1]), from the
\* k-th list on
RECURSIVE ConcatFrom(_, _, _, _, _)
ConcatFrom(events_out, k, events, first_samps, n_samps) ==
    IF k > Len(events) THEN events_out
    ELSE ConcatFrom(events_out \o Rebased(events[k], first_samps[k],
                                          n_samps[k - 1], first_samps[1]),
                    k + 1, events, first_samps, n_samps)

concatenate_events(events_type, events, first_samps, last_samps) ==
    IF events_type # "list"
    THEN [ret |-> <<>>, err |-> "ValueError: events must be a list of arrays"]
    ELSE IF ~(Len(events) = Len(last_samps) /\ Len(events) = Len(first_samps))
    THEN [ret |-> <<>>, err |-> "ValueError: same lengths"]
    ELSE IF Len(events) = 0      \* events[0]
    THEN [ret |-> <<>>, err |-> "IndexError"]
    ELSE [ret |-> ConcatFrom(events[1], 2, events, first_samps,
                             NSamps(first_samps, last_samps)),
          err |-> "none"]

(***************************************************************************)
(* pick_events.  include and exclude are records [type, val] with type     *)
(* "NoneType", "int" (val an id) or "list" (val a sequence of ids).        *)
(***************************************************************************)
NoneArg == [type |-> "NoneType", val |-> <<>>]

\* if not isinstance(include, list): include = [include]
AsList(x) == IF x.type = "list" THEN x.val ELSE <<x.val>>

pick_events(events, include, exclude, step) ==
    LET hit(k, e) == events[k][3] = e \/ (step /\ events[k][2] = e)
        picked ==
            IF include.type # "NoneType"
            THEN Compress(events,
                     {k \in DOMAIN events :
                         \E i \in DOMAIN AsList(include) :
                             hit(k, AsList(include)[i])})
            ELSE IF exclude.type # "NoneType"
            THEN Compress(events,
                     {k \in DOMAIN events :
                         \A i \in DOMAIN AsList(exclude) :
                             ~hit(k, AsList(exclude)[i])})
            ELSE events
    IN  IF Len(picked) = 0
        THEN [ret |-> <<>>, err |-> "RuntimeError: No events found"]
        ELSE [ret |-> picked, err |-> "none"]

(***************************************************************************)
(* shift_time_events.  tshift is given in milliseconds (tshift_ms).        *)
(***************************************************************************)
\* the number of times the loop "for ii in ids" meets the id x
Occurrences(ids, x) == Cardinality({i \in DOMAIN ids : ids[i] = x})

\* events = events.copy()
\* for ii in ids: events[events[:, 2] == ii, 0] += int(tshift * sfreq)
shift_time_events(events, ids, tshift_ms, sfreq) ==
    [k \in DOMAIN events |->
        <<events[k][1] + Occurrences(ids, events[k][3])
                             * TruncDiv(tshift_ms * sfreq, 1000),
          events[k][2], events[k][3]>>]

(***************************************************************************)
(* write_events and read_events, plain-text format.  A file is the         *)
(* sequence of its lines and a line the sequence of its characters         *)
(* (without the newline).                                                  *)
(***************************************************************************)
Digits == <<"0", "1", "2", "3", "4", "5", "6", "7", "8", "9">>

\* the decimal digits of an integer, as %d prints them
RECURSIVE Decimal(_)
Decimal(n) ==
    IF n < 0 THEN <<"-">> \o Decimal(-n)
    ELSE IF n < 10 THEN <<Digits[n + 1]>>
    ELSE Append(Decimal(n \div 10), Digits[(n % 10) + 1])

\* %wd: right-justified in at least w characters
PadLeft(s, w) ==
    IF Len(s) >= w THEN s ELSE [i \in 1..(w - Len(s)) |-> " "] \o s

\* '%6d %6d %3d' % tuple(e)
FormatLine(e) ==
    PadLeft(Decimal(e[1]), 6) \o <<" ">> \o PadLeft(Decimal(e[2]), 6)
        \o <<" ">> \o PadLeft(Decimal(e[3]), 3)

write_events(event_list) ==
    [k \in DOMAIN event_list |-> FormatLine(event_list[k])]

\* np.loadtxt splits a line at white space
RECURSIVE Split(_)
Split(line) ==
    IF line = <<>> THEN <<>>
    ELSE IF Head(line) = " " THEN Split(Tail(line))
    ELSE LET n == CHOOSE m \in 1..Len(line) :
                      /\ \A i \in 1..m : line[i] # " "
                      /\ (m = Len(line) \/ line[m + 1] = " ")
         IN  <<SubSeq(line, 1, n)>> \o Split(SubSeq(line, n + 1, Len(line)))

\* the number a decimal token stands for
RECURSIVE ParseDecimal(_)
ParseDecimal(token) ==
    IF Head(token) = "-" THEN -ParseDecimal(Tail(token))
    ELSE LET d == (CHOOSE i \in 1..10 : Digits[i] = Last(token)) - 1
         IN  IF Len(token) = 1 THEN d
             ELSE 10 * ParseDecimal(SubSeq(token, 1, Len(token) - 1)) + d

\* .astype(np.uint32) of the parsed float: the whole numbers from 0 up to
\* 2^31 - 1, the values of every file of the model, are kept as they are
AsUInt32(v) == v

\* np.loadtxt(filename, dtype=np.float64).astype(np.uint32)
LoadTxt(lines) ==
    [k \in DOMAIN lines |->
        LET tokens == Split(lines[k])
        IN  [c \in DOMAIN tokens |-> AsUInt32(ParseDecimal(tokens[c]))]]

\* if event_list.shape[0] > 0 and event_list[0, 2] == 0:
\*     event_list = event_list[1:]
DropOffsetLine(event_list) ==
    IF Len(event_list) > 0 /\ event_list[1][3] = 0
    THEN Tail(event_list)
    ELSE event_list

read_events(lines_of_file, include, exclude, mask) ==
    LET lines == LoadTxt(lines_of_file)
        goods == IF Len(lines[1]) = 4 THEN <<1, 3, 4>> ELSE <<1, 2, 3>>
        event_list == DropOffsetLine(
                          [k \in DOMAIN lines |->
                              [c \in 1..3 |-> lines[k][goods[c]]]])
        picked == pick_events(event_list, include, exclude, FALSE)
        masked == _mask_trigs(picked.ret, mask)
    IN  IF Len(lines) = 0
        THEN [ret |-> <<>>, err |-> "ValueError: No text lines found"]
        ELSE IF Len(lines[1]) \notin {3, 4}
        THEN [ret |-> <<>>, err |-> "ValueError: Unknown number of columns"]
        ELSE IF picked.err # "none"
        THEN [ret |-> <<>>, err |-> picked.err]
        ELSE [ret |-> masked.ret, err |-> masked.err]

(***************************************************************************)
(* Inputs of find_stim_steps: one channel, or two channels of equal length *)
(* (the second one a single trigger line).                                 *)
(***************************************************************************)
StimValues == 0..MaxVal

LineValues == {0, 1}

StepData ==
    {<<c>> : c \in SeqsUpTo(StimValues \cup {-1}, MaxStepLen)}
    \cup UNION {{<<c1, c2>> : c1 \in [1..n -> StimValues], c2 \in [1..n -> LineValues]} :
                    n \in 1..MaxStepLen}

FirstSamps == {0, 2}

Pads == {<<>>, <<0>>, <<1>>}

Merges == {-2, -1, 0, 1, 2}

InitSteps ==
    /\ op = "find_stim_steps"
    /\ pc = "call"
    /\ args \in [data : StepData, first_samp : FirstSamps,
                  pad_start : Pads, pad_stop : Pads, merge : Merges]
    /\ out = <<>>
    /\ err = "none"
    /\ file = <<>>
    /\ after = args.data

FindStimSteps ==
    /\ op = "find_stim_steps"
    /\ pc = "call"
    /\ pc' = "done"
    /\ out' = find_stim_steps(args.data, args.first_samp, args.pad_start,
                              args.pad_stop, args.merge)
    /\ err' = "none"
    /\ after' = args.data
    /\ UNCHANGED <<op, args, file>>

SpecSteps == InitSteps /\ [][FindStimSteps]_vars

(***************************************************************************)
(* Inputs of find_events: one stim channel.  DocStim is the channel of the *)
(* docstring's examples.  uint_cast changes negative samples only, so it   *)
(* is drawn for the channels that have one.                                *)
(***************************************************************************)
DocStim == <<0, 32, 32, 33, 32, 0>>

IntMask(v) == [type |-> "int", val |-> v]

NonNegStim == SeqsUpTo(StimValues, MaxLen) \cup {DocStim}

NegStim == SeqsUpTo({-1, 0}, MaxLen) \ SeqsUpTo({0}, MaxLen)

Outputs == {"onset", "offset", "step"}

Consecutives == {"increasing", "True", "False"}

EventMasks == {IntMask(0), IntMask(1), IntMask(2),
               [type |-> "float", val |-> 1]}

MinSamplesX2 == {0, 3, 4}

ShortestEvents == {1, 2}

\* The calls drawn: every combination of the arguments for a recording that
\* starts at sample 0, and the default mask and min_duration for one that
\* starts at sample 1.
EventCalls ==
    [first_samp : {0}, output : Outputs, consecutive : Consecutives,
     min_samples_x2 : MinSamplesX2, shortest_event : ShortestEvents,
     mask : EventMasks]
    \cup [first_samp : {1}, output : Outputs, consecutive : Consecutives,
          min_samples_x2 : {0}, shortest_event : ShortestEvents,
          mask : {IntMask(0)}]

InitEvents ==
    /\ op = "find_events"
    /\ pc = "call"
    /\ \E c \in NonNegStim \cup NegStim :
       \E u \in IF c \in NegStim THEN BOOLEAN ELSE {FALSE} :
       \E a \in EventCalls :
          args = [data |-> <<c>>, first_samp |-> a.first_samp,
                  output |-> a.output, consecutive |-> a.consecutive,
                  min_samples_x2 |-> a.min_samples_x2,
                  shortest_event |-> a.shortest_event, mask |-> a.mask,
                  uint_cast |-> u]
    /\ out = <<>>
    /\ err = "none"
    /\ file = <<>>
    /\ after = args.data

FindEvents ==
    /\ op = "find_events"
    /\ pc = "call"
    /\ pc' = "done"
    /\ LET r == find_events(args.data, args.first_samp, args.output,
                            args.consecutive, args.min_samples_x2,
                            args.shortest_event, args.mask, args.uint_cast)
       IN  /\ out' = r.ret
           /\ err' = r.err
    /\ after' = args.data
    /\ UNCHANGED <<op, args, file>>

SpecEvents == InitEvents /\ [][FindEvents]_vars

(***************************************************************************)
(* Inputs of _mask_trigs: up to MaxTrigs transitions, row k at sample      *)
(* 10 * k, and the docstring's trigger value 7 under mask 37.              *)
(***************************************************************************)
MaxTrigs == 2

TrigValues == 0..(MaxVal + 1)

TrigLists ==
    UNION {{[k \in 1..n |-> <<10 * k, v[k][1], v[k][2]>>] :
                v \in [1..n -> TrigValues \X TrigValues]} : n \in 0..MaxTrigs}

MaskArgs ==
    {IntMask(m) : m \in -3..3}
    \cup {[type |-> "float", val |-> 1], [type |-> "NoneType", val |-> 0],
          [type |-> "bool", val |-> 0], [type |-> "bool", val |-> 1]}

DocTrigs == <<<<1, 0, 7>>>>

DocMask == IntMask(37)

InitMask ==
    /\ op = "_mask_trigs"
    /\ pc = "call"
    /\ args \in [events : TrigLists, mask : MaskArgs]
                \cup {[events |-> DocTrigs, mask |-> DocMask]}
    /\ out = <<>>
    /\ err = "none"
    /\ file = <<>>
    /\ after = args.events

MaskTrigs ==
    /\ op = "_mask_trigs"
    /\ pc = "call"
    /\ pc' = "done"
    /\ LET r == _mask_trigs(args.events, args.mask)
       IN  /\ out' = r.ret
           /\ err' = r.err
           /\ after' = r.events
    /\ UNCHANGED <<op, args, file>>

SpecMask == InitMask /\ [][MaskTrigs]_vars

(***************************************************************************)
(* Inputs of merge_events: up to MaxRows events, and the docstring's       *)
(* example.                                                                *)
(***************************************************************************)
MaxRows == 2

EventRows == {1, 2} \X {0, 1} \X {1, 2, 3}

EventLists == SeqsFrom0(EventRows, MaxRows)

DocEvents == <<<<134, 0, 1>>, <<341, 0, 2>>, <<502, 0, 3>>>>

IdLists == {<<>>, <<1>>, <<3>>, <<1, 2>>, <<2, 1>>}

NewIds == {1, 3, 12}

InitMerge ==
    /\ op = "merge_events"
    /\ pc = "call"
    /\ args \in [events : EventLists \cup {DocEvents}, ids : IdLists,
                 new_id : NewIds, replace_events : BOOLEAN]
    /\ out = <<>>
    /\ err = "none"
    /\ file = <<>>
    /\ after = args.events

MergeEvents ==
    /\ op = "merge_events"
    /\ pc = "call"
    /\ pc' = "done"
    /\ LET r == merge_events(args.events, args.ids, args.new_id,
                             args.replace_events)
       IN  /\ out' = r.ret
           /\ err' = r.err
    /\ after' = args.events
    /\ UNCHANGED <<op, args, file>>

SpecMerge == InitMerge /\ [][MergeEvents]_vars

(***************************************************************************)
(* Inputs of make_fixed_length_events: recordings of up to MaxTimes        *)
(* samples that start at sample 0 or 3, intervals of 1, 1.5, 2 and 2.5     *)
(* samples, and the 100-sample recording cut every 10 samples with id 5.   *)
(***************************************************************************)
MaxTimes == 6

Raws == {[first_samp |-> f, last_samp |-> f + n - 1] :
             f \in {0, 3}, n \in 1..MaxTimes}

DocRaw == [first_samp |-> 0, last_samp |-> 99]

FixedStops == {<<>>} \cup {<<s>> : s \in 0..MaxTimes}

IntervalsX2 == {2, 3, 4, 5}

FixedIds == {IntMask(5), [type |-> "float", val |-> 5]}

InitFixed ==
    /\ op = "make_fixed_length_events"
    /\ pc = "call"
    /\ args \in [raw : Raws, id : FixedIds, start : 0..2, stop : FixedStops,
                 interval_x2 : IntervalsX2, first_samp : BOOLEAN]
                \cup [raw : {DocRaw}, id : {IntMask(5)}, start : {0},
                      stop : {<<>>}, interval_x2 : {20}, first_samp : BOOLEAN]
    /\ out = <<>>
    /\ err = "none"
    /\ file = <<>>
    /\ after = <<>>

MakeFixedLengthEvents ==
    /\ op = "make_fixed_length_events"
    /\ pc = "call"
    /\ pc' = "done"
    /\ LET r == make_fixed_length_events(args.raw, args.id, args.start,
                                         args.stop, args.interval_x2,
                                         args.first_samp)
       IN  /\ out' = r.ret
           /\ err' = r.err
    /\ after' = <<>>
    /\ UNCHANGED <<op, args, file>>

SpecFixed == InitFixed /\ [][MakeFixedLengthEvents]_vars

(***************************************************************************)
(* Inputs of define_target_events: up to MaxTargetRows events with ids 1   *)
(* and 2 at samples 0..MaxTargetSample in any order, reference id 1,       *)
(* target id 2, windows in milliseconds at 500 Hz and 1000 Hz.             *)
(***************************************************************************)
MaxTargetRows == 3

MaxTargetSample == 3

TargetLists ==
    SeqsFrom0((0..MaxTargetSample) \X {0} \X {1, 2}, MaxTargetRows)

SFreqs == {500, 1000}

TMinsMs == {-3, -1, 0}

TMaxsMs == {1, 3}

InitTarget ==
    /\ op = "define_target_events"
    /\ pc = "call"
    /\ args \in [events : TargetLists, reference_id : {1}, target_id : {2},
                 sfreq : SFreqs, tmin_ms : TMinsMs, tmax_ms : TMaxsMs,
                 new_id : {<<>>, <<5>>}, fill_na : {<<>>, <<9>>}]
    /\ out = <<>>
    /\ err = "none"
    /\ file = <<>>
    /\ after = args.events

DefineTargetEvents ==
    /\ op = "define_target_events"
    /\ pc = "call"
    /\ pc' = "done"
    /\ out' = define_target_events(args.events, args.reference_id,
                                   args.target_id, args.sfreq, args.tmin_ms,
                                   args.tmax_ms, args.new_id, args.fill_na)
    /\ err' = "none"
    /\ after' = args.events
    /\ UNCHANGED <<op, args, file>>

SpecTarget == InitTarget /\ [][DefineTargetEvents]_vars

(***************************************************************************)
(* Inputs of concatenate_events: up to MaxRecs recordings that start at    *)
(* sample 0 or 2 and end at sample 3 or 5, each with no, one or two        *)
(* events; calls whose three lists differ in length; a tuple of arrays.    *)
(***************************************************************************)
MaxRecs == 3

CatLists == {<<>>, <<<<2, 0, 1>>>>, <<<<2, 0, 1>>, <<3, 1, 2>>>>}

CatCalls ==
    UNION {[events_type : {"list"}, events : [1..n -> CatLists],
            first_samps : [1..n -> {0, 2}], last_samps : [1..n -> {3, 5}]] :
               n \in 0..MaxRecs}

MismatchedCatCalls ==
    {[events_type |-> "list",
      events |-> [k \in 1..n |-> <<<<2, 0, 1>>>>],
      first_samps |-> [k \in 1..a |-> 0],
      last_samps |-> [k \in 1..b |-> 3]] :
         n \in 0..MaxRecs, a \in 0..MaxRecs, b \in 0..MaxRecs}

TupleCatCalls ==
    [events_type : {"tuple"}, events : [1..1 -> CatLists],
     first_samps : {<<0>>}, last_samps : {<<3>>}]

InitConcat ==
    /\ op = "concatenate_events"
    /\ pc = "call"
    /\ args \in CatCalls \cup MismatchedCatCalls \cup TupleCatCalls
    /\ out = <<>>
    /\ err = "none"
    /\ file = <<>>
    /\ after = args.events

ConcatenateEvents ==
    /\ op = "concatenate_events"
    /\ pc = "call"
    /\ pc' = "done"
    /\ LET r == concatenate_events(args.events_type, args.events,
                                   args.first_samps, args.last_samps)
       IN  /\ out' = r.ret
           /\ err' = r.err
    /\ after' = args.events
    /\ UNCHANGED <<op, args, file>>

SpecConcat == InitConcat /\ [][ConcatenateEvents]_vars

(***************************************************************************)
(* Inputs of the text round trip: write_events writes up to MaxRows        *)
(* events to a text file and read_events (no include, no exclude, mask 0)  *)
(* reads the file back.  The rows have samples and ids narrower and wider  *)
(* than their columns of the format.                                       *)
(***************************************************************************)
TextRows == {5, 1234567} \X {0, 1} \X {0, 1, 1000}

TextLists == SeqsFrom0(TextRows, MaxRows)

InitText ==
    /\ op = "write_events, read_events"
    /\ pc = "call"
    /\ args \in [event_list : TextLists, include : {NoneArg},
                 exclude : {NoneArg}, mask : {IntMask(0)}]
    /\ out = <<>>
    /\ err = "none"
    /\ file = <<>>
    /\ after = args.event_list

WriteEvents ==
    /\ op = "write_events, read_events"
    /\ pc = "call"
    /\ pc' = "written"
    /\ file' = write_events(args.event_list)
    /\ UNCHANGED <<op, args, out, err, after>>

ReadEvents ==
    /\ op = "write_events, read_events"
    /\ pc = "written"
    /\ pc' = "done"
    /\ LET r == read_events(file, args.include, args.exclude, args.mask)
       IN  /\ out' = r.ret
           /\ err' = r.err
    /\ UNCHANGED <<op, args, after, file>>

SpecText == InitText /\ [][WriteEvents \/ ReadEvents]_vars

(***************************************************************************)
(* Inputs of pick_events and of shift_time_events: the event lists of      *)
(* merge_events.                                                           *)
(***************************************************************************)
IncludeArgs == {NoneArg, [type |-> "int", val |-> 1],
                [type |-> "list", val |-> <<1, 2>>]}

ExcludeArgs == {NoneArg, [type |-> "int", val |-> 3],
                [type |-> "list", val |-> <<2, 3>>]}

InitPick ==
    /\ op = "pick_events"
    /\ pc = "call"
    /\ args \in [events : EventLists \cup {DocEvents}, include : IncludeArgs,
                 exclude : ExcludeArgs, step : BOOLEAN]
    /\ out = <<>>
    /\ err = "none"
    /\ file = <<>>
    /\ after = args.events

PickEvents ==
    /\ op = "pick_events"
    /\ pc = "call"
    /\ pc' = "done"
    /\ LET r == pick_events(args.events, args.include, args.exclude, args.step)
       IN  /\ out' = r.ret
           /\ err' = r.err
    /\ after' = args.events
    /\ UNCHANGED <<op, args, file>>

SpecPick == InitPick /\ [][PickEvents]_vars

TShiftsMs == {-3, 2}

InitShift ==
    /\ op = "shift_time_events"
    /\ pc = "call"
    /\ args \in [events : EventLists \cup {DocEvents}, ids : IdLists,
                 tshift_ms : TShiftsMs, sfreq : SFreqs]
    /\ out = <<>>
    /\ err = "none"
    /\ file = <<>>
    /\ after = args.events

ShiftTimeEvents ==
    /\ op = "shift_time_events"
    /\ pc = "call"
    /\ pc' = "done"
    /\ out' = shift_time_events(args.events, args.ids, args.tshift_ms,
                                args.sfreq)
    /\ err' = "none"
    /\ after' = args.events
    /\ UNCHANGED <<op, args, file>>

SpecShift == InitShift /\ [][ShiftTimeEvents]_vars

(***************************************************************************)
(* All calls together.                                                     *)
(***************************************************************************)
Init ==
    \/ InitSteps
    \/ InitEvents
    \/ InitMask
    \/ InitMerge
    \/ InitFixed
    \/ InitTarget
    \/ InitConcat
    \/ InitText
    \/ InitPick
    \/ InitShift

Next ==
    \/ FindStimSteps
    \/ FindEvents
    \/ MaskTrigs
    \/ MergeEvents
    \/ MakeFixedLengthEvents
    \/ DefineTargetEvents
    \/ ConcatenateEvents
    \/ WriteEvents
    \/ ReadEvents
    \/ PickEvents
    \/ ShiftTimeEvents

Spec == Init /\ [][Next]_vars

(***************************************************************************)
(* Claims about find_stim_steps (SpecSteps).                               *)
(***************************************************************************)
StepsDone == op = "find_stim_steps" /\ pc = "done"

NoPadNoMerge ==
    args.pad_start = <<>> /\ args.pad_stop = <<>> /\ args.merge = 0

\* The matrix _find_stim_steps receives.
StepInput == Rectify(args.data)

\* C1: without padding and merging, _find_stim_steps reports a transition
\* between adjacent samples i and i+1 if and only if every channel's value
\* differs between them; the row is (first sample with the new value +
\* first_samp, first channel before, first channel after), rows ascend, so
\* one simultaneous change gives exactly one row, a change of only some
\* channels gives none, and constant data gives the empty result.
C1_StepIffAllChannelsChange ==
    (StepsDone /\ NoPadNoMerge) =>
        LET d == StepInput
            n == Len(d[1])
            f == args.first_samp
        IN  /\ \A i \in 1..(n - 1) :
                  (\A c \in DOMAIN d : d[c][i] # d[c][i + 1])
                  <=> (\E k \in DOMAIN out : out[k][1] = i + f)
            /\ \A k \in DOMAIN out :
                  /\ out[k][1] - f \in 1..(n - 1)
                  /\ out[k][2] = d[1][out[k][1] - f]
                  /\ out[k][3] = d[1][out[k][1] - f + 1]
            /\ \A k \in 1..(Len(out) - 1) : out[k][1] < out[k + 1][1]
            /\ err = "none"

\* C1 witness: two channels, one position where both change and one where
\* only the first changes; exactly one transition is reported.
C1_Witness ==
    /\ StepsDone /\ NoPadNoMerge
    /\ Len(args.data) = 2
    /\ Len(out) = 1
    /\ \E i \in 1..(Len(args.data[1]) - 1) :
          /\ args.data[1][i] # args.data[1][i + 1]
          /\ args.data[2][i] = args.data[2][i + 1]

\* C8 as stated: with a single channel and no merging, a given pad_start
\* that differs from the channel's first value v puts (0, pad_start, v)
\* first, a given pad_stop that differs from the last value w puts
\* (len + first_samp, w, pad_stop) last, and no pad row is inserted
\* otherwise.
C8_PadRowsAtBothEnds ==
    (StepsDone /\ Len(args.data) = 1 /\ args.merge = 0) =>
        LET d == StepInput[1]
            n == Len(d)
            f == args.first_samp
            startRow == <<0, args.pad_start[1], d[1]>>
            stopRow  == <<n + f, d[n], args.pad_stop[1]>>
            padStart == args.pad_start # <<>> /\ d[1] # args.pad_start[1]
            padStop  == args.pad_stop # <<>> /\ d[n] # args.pad_stop[1]
        IN  /\ padStart => (Len(out) > 0 /\ out[1] = startRow)
            /\ padStop => (Len(out) > 0 /\ Last(out) = stopRow)
            /\ ~padStart => \A k \in DOMAIN out : out[k][1] > 0
            /\ ~padStop => \A k \in DOMAIN out : out[k][1] < n + f

(***************************************************************************)
(* Claims about find_events (SpecEvents).                                  *)
(***************************************************************************)
EventsDone == op = "find_events" /\ pc = "done"

\* find_events' default shortest_event.
DefaultShortestEvent == 2

\* The call leaves mask, min_duration and uint_cast at their defaults.
PlainCall ==
    /\ args.mask = IntMask(0)
    /\ args.min_samples_x2 = 0
    /\ ~args.uint_cast

NonNegative(c) == \A i \in DOMAIN c : c[i] >= 0

\* The transitions of one channel c, stated from the channel itself: every
\* change between adjacent samples, and the closing step to 0 that
\* pad_stop = 0 stands for when the channel ends above 0.
ChannelSteps(c, f) ==
    {<<i + f, c[i], c[i + 1]>> : i \in {j \in 1..(Len(c) - 1) : c[j] # c[j + 1]}}
    \cup (IF Last(c) # 0 THEN {<<Len(c) + f, Last(c), 0>>} ELSE {})

IsOnset(t, consecutive) ==
    IF consecutive = "increasing" THEN t[3] > t[2]
    ELSE IF consecutive = "True" THEN t[3] > 0
    ELSE t[2] = 0

IsOffset(t, consecutive) ==
    IF consecutive = "increasing" THEN (t[3] > t[2] \/ t[3] = 0) /\ t[2] > 0
    ELSE IF consecutive = "True" THEN t[2] > 0
    ELSE t[3] = 0

\* The onsets of a channel under a policy, minus a trailing onset that no
\* offset follows or accompanies.
ExpectedOnsets(c, f, consecutive) ==
    LET T    == ChannelSteps(c, f)
        ons  == {t \in T : IsOnset(t, consecutive)}
        offs == {t \in T : IsOffset(t, consecutive)}
    IN  {t \in ons :
            \/ \E u \in ons : u[1] > t[1]
            \/ \E u \in offs : u[1] >= t[1]}

\* The rows of a sequence, as a set.
Rows(s) == {s[k] : k \in DOMAIN s}

Ascending(s) == \A k \in 1..(Len(s) - 1) : s[k][1] < s[k + 1][1]

\* C2: Onset mode on one non-negative channel with mask 0 and
\* min_duration 0, when the spacing check passes, returns in ascending
\* sample order exactly the onsets of the channel under the policy (minus a
\* trailing onset without offset); for DocStim the default policy returns
\* [[1,0,32],[3,32,33]] and consecutive=False returns [[1,0,32]].
C2_OnsetModeReturnsOnsets ==
    (/\ EventsDone /\ args.output = "onset" /\ PlainCall
     /\ NonNegative(args.data[1])) =>
        /\ err \in {"none", "ValueError: short events"}
        /\ err = "none" =>
              /\ Rows(out) = ExpectedOnsets(args.data[1], args.first_samp,
                                            args.consecutive)
              /\ Ascending(out)
        /\ (/\ args.data[1] = DocStim /\ args.first_samp = 0
            /\ args.shortest_event = DefaultShortestEvent) =>
              /\ args.consecutive = "increasing" =>
                    (err = "none" /\ out = <<<<1, 0, 32>>, <<3, 32, 33>>>>)
              /\ args.consecutive = "False" =>
                    (err = "none" /\ out = <<<<1, 0, 32>>>>)

\* C2 witness: the docstring's default call has returned its two onsets.
C2_Witness ==
    /\ EventsDone /\ args.output = "onset" /\ PlainCall
    /\ args.data[1] = DocStim /\ args.first_samp = 0
    /\ args.shortest_event = DefaultShortestEvent
    /\ args.consecutive = "increasing"
    /\ out = <<<<1, 0, 32>>, <<3, 32, 33>>>>

\* C3 as stated: for DocStim with first_samp 0 and every other argument at
\* its default (shortest_event = 2 included), consecutive=True returns
\* [[1,0,32],[3,32,33],[4,33,32]], output='offset' returns
\* [[2,33,32],[3,32,33],[4,0,32]] and output='step' returns
\* [[1,0,32],[3,32,33],[4,33,32],[5,32,0]].
C3_DocExamplesConsecutiveTrue ==
    (/\ EventsDone /\ PlainCall /\ args.data[1] = DocStim
     /\ args.first_samp = 0 /\ args.consecutive = "True"
     /\ args.shortest_event = DefaultShortestEvent) =>
        /\ err = "none"
        /\ args.output = "onset" =>
              out = <<<<1, 0, 32>>, <<3, 32, 33>>, <<4, 33, 32>>>>
        /\ args.output = "offset" =>
              out = <<<<2, 33, 32>>, <<3, 32, 33>>, <<4, 0, 32>>>>
        /\ args.output = "step" =>
              out = <<<<1, 0, 32>>, <<3, 32, 33>>, <<4, 33, 32>>, <<5, 32, 0>>>>

\* What _find_events returns for the call, and what it would return in
\* Onset mode (the onset events of the call).
Extracted ==
    _find_events(args.data, args.first_samp, args.output, args.consecutive,
                 args.min_samples_x2, args.mask, args.uint_cast)

OnsetEvents ==
    _find_events(args.data, args.first_samp, "onset", args.consecutive,
                 args.min_samples_x2, args.mask, args.uint_cast).ret

TooClose(rows, shortest_event) ==
    \E k \in 1..(Len(rows) - 1) : rows[k + 1][1] - rows[k][1] < shortest_event

EvSteps ==
    MaskedSteps(args.data, args.first_samp, args.min_samples_x2, args.mask,
                args.uint_cast).ret

AllOnsets == Where(Onsets(EvSteps, args.consecutive))

AllOffsets == Where(Offsets(EvSteps, args.consecutive))

RetainedOffsets == TrimOffsets(AllOnsets, AllOffsets)

RetainedOnsets == TrimOnsets(AllOnsets, RetainedOffsets)

\* C5 as stated: in Offset mode, after orphan trimming, as many onsets as
\* offsets are retained and row k is (sample of offset k - 1, value after
\* offset k, after-value of onset k); a count mismatch is reported as an
\* error and never yields a result.
C5_OffsetModePairsOnsetsWithOffsets ==
    (/\ EventsDone /\ args.output = "offset" /\ IsInstanceInt(args.mask)
     /\ Len(AllOnsets) > 0 /\ Len(AllOffsets) > 0) =>
        \/ err # "none"
        \/ /\ Len(RetainedOnsets) = Len(RetainedOffsets)
           /\ out = [k \in 1..Len(RetainedOffsets) |->
                        <<EvSteps[RetainedOffsets[k]][1] - 1,
                          EvSteps[RetainedOffsets[k]][3],
                          EvSteps[RetainedOnsets[k]][3]>>]

\* C6 as stated: no row returned by find_events, in any output mode, has
\* event id (third column) 0.
C6_NoZeroEventId ==
    EventsDone => \A k \in DOMAIN out : out[k][3] # 0

\* C6 amended: in Onset and Offset mode no returned row has event id 0; in
\* Step mode a row has event id 0 exactly when it is an offset step down to
\* the baseline (its second column is above 0).
C6_NoZeroEventIdOnsetOffset ==
    EventsDone =>
        /\ args.output \in {"onset", "offset"} =>
              \A k \in DOMAIN out : out[k][3] > 0
        /\ args.output = "step" =>
              \A k \in DOMAIN out : out[k][3] > 0 \/ (out[k][3] = 0 /\ out[k][2] > 0)

\* C6 witness: an Offset-mode call under a non-zero mask has returned two
\* rows or more.
C6_Witness ==
    /\ EventsDone /\ args.output = "offset" /\ args.mask = IntMask(1)
    /\ Len(out) >= 2

(***************************************************************************)
(* Claims about _mask_trigs (SpecMask).                                    *)
(***************************************************************************)
MaskDone == op = "_mask_trigs" /\ pc = "done"

\* C7 as stated: _mask_trigs fails with an invalid-argument error, and
\* returns no transitions, whenever the mask is not a non-negative integer:
\* for every negative integer and every non-integer, whether the
\* transition list is empty or not.
C7_RejectsNegativeAndNonInteger ==
    (/\ MaskDone
     /\ \/ args.mask.type \in {"float", "NoneType"}
        \/ args.mask.type = "int" /\ args.mask.val < 0) =>
        (err = "TypeError" /\ out = <<>>)

\* C7 amended: _mask_trigs fails (TypeError) exactly when the mask is not
\* an instance of int, for empty and non-empty lists alike, and then
\* returns nothing and leaves the list as it was; every int, the negative
\* ones included, is accepted.
C7_RejectsExactlyNonInt ==
    MaskDone =>
        /\ err \in {"none", "TypeError"}
        /\ err = "TypeError" <=> args.mask.type \notin {"int", "bool"}
        /\ err = "TypeError" => (out = <<>> /\ after = args.events)
        /\ (args.mask.type = "int" /\ args.mask.val < 0) =>
              (err = "none" /\ Len(out) <= Len(args.events))

\* C7 witness: a negative mask was accepted and a transition came back.
C7_Witness ==
    /\ MaskDone
    /\ args.mask.type = "int" /\ args.mask.val < 0
    /\ err = "none"
    /\ Len(out) > 0

(***************************************************************************)
(* Claims about merge_events (SpecMerge).                                  *)
(***************************************************************************)
MergeDone == op = "merge_events" /\ pc = "done"

InIds(x) == \E j \in 1..Len(args.ids) : args.ids[j] = x

\* The relabeled copy of a row.
Relabeled(e) ==
    <<e[1], IF InIds(e[2]) THEN args.new_id ELSE e[2],
            IF InIds(e[3]) THEN args.new_id ELSE e[3]>>

\* The rows of the input with an entry in ids.
TouchedRows == {k \in 1..Len(args.events) :
                    InIds(args.events[k][2]) \/ InIds(args.events[k][3])}

\* How often a row occurs in a list.
Count(rows, r) == Cardinality({k \in 1..Len(rows) : rows[k] = r})

\* C9: a returning merge_events call with replace_events=True gives the
\* input rows in order, every second- and third-column entry that is in ids
\* replaced by new_id and every other entry unchanged; with
\* replace_events=False it gives as many rows as the input plus the rows
\* with an entry in ids, namely every relabeled row and, beside it, every
\* touched original row unmodified.
C9_MergeRowAccounting ==
    (MergeDone /\ err = "none") =>
        /\ args.replace_events =>
              /\ Len(out) = Len(args.events)
              /\ \A k \in 1..Len(out) : out[k] = Relabeled(args.events[k])
        /\ ~args.replace_events =>
              /\ Len(out) = Len(args.events) + Cardinality(TouchedRows)
              /\ \A r \in Rows(out) \cup Rows(args.events) :
                    Count(out, r) =
                        Cardinality({k \in 1..Len(args.events) :
                                        Relabeled(args.events[k]) = r})
                        + Cardinality({k \in TouchedRows : args.events[k] = r})
        /\ (args.events = DocEvents /\ args.ids = <<1, 2>> /\ args.new_id = 12
            /\ args.replace_events) =>
              out = <<<<134, 0, 12>>, <<341, 0, 12>>, <<502, 0, 3>>>>

\* C9 witness: replace_events=False, a row touched through its second
\* column only, and a row left untouched.
C9_Witness ==
    /\ MergeDone /\ err = "none" /\ ~args.replace_events
    /\ \E k \in TouchedRows : ~InIds(args.events[k][3])
    /\ \E k \in 1..Len(args.events) : k \notin TouchedRows
    /\ ~InIds(args.new_id)
    /\ Len(out) = Len(args.events) + 1

\* C10 as stated: with replace_events=False the returned list is sorted by
\* sample ascending, ties broken by second column descending, then by
\* event id descending.
C10_SortedTiesDescending ==
    (MergeDone /\ err = "none" /\ ~args.replace_events) =>
        \A k \in 1..(Len(out) - 1) :
            \/ out[k][1] < out[k + 1][1]
            \/ out[k][1] = out[k + 1][1] /\ out[k][2] > out[k + 1][2]
            \/ /\ out[k][1] = out[k + 1][1] /\ out[k][2] = out[k + 1][2]
               /\ out[k][3] >= out[k + 1][3]

\* C10 amended: with replace_events=False the returned list is sorted by
\* sample ascending, ties broken by second column ascending, then by event
\* id ascending.
C10_SortedTiesAscending ==
    (MergeDone /\ err = "none" /\ ~args.replace_events) =>
        /\ \A k \in 1..(Len(out) - 1) :
              \/ out[k][1] < out[k + 1][1]
              \/ out[k][1] = out[k + 1][1] /\ out[k][2] < out[k + 1][2]
              \/ /\ out[k][1] = out[k + 1][1] /\ out[k][2] = out[k + 1][2]
                 /\ out[k][3] <= out[k + 1][3]
        /\ (args.events = DocEvents /\ args.ids = <<1, 2>> /\ args.new_id = 12) =>
              out = <<<<134, 0, 1>>, <<134, 0, 12>>, <<341, 0, 2>>,
                      <<341, 0, 12>>, <<502, 0, 3>>>>

\* C10 witness: the docstring's replace_events=False call has returned;
\* the rows at sample 134 tie on the second column and ascend in id.
C10_Witness ==
    /\ MergeDone /\ err = "none" /\ ~args.replace_events
    /\ args.events = DocEvents /\ args.ids = <<1, 2>> /\ args.new_id = 12
    /\ Len(out) = 5
    /\ out[1][1] = out[2][1] /\ out[1][3] < out[2][3]

(***************************************************************************)
(* Claims about make_fixed_length_events (SpecFixed).                      *)
(***************************************************************************)
FixedDone == op = "make_fixed_length_events" /\ pc = "done"

IntId == args.id.type = "int"

\* the first sample, in the numbering of the returned samples
FixedStart ==
    args.start + (IF args.first_samp THEN args.raw.first_samp ELSE 0)

\* the end of the recording in the numbering of the returned samples, or
\* the given stop if that is smaller
FixedEnd ==
    LET shift == IF args.first_samp THEN args.raw.first_samp ELSE 0
        last  == IF args.first_samp THEN args.raw.last_samp + 1
                 ELSE args.raw.last_samp - args.raw.first_samp + 1
    IN  IF args.stop = <<>> THEN last
        ELSE IF args.stop[1] + shift < last THEN args.stop[1] + shift
        ELSE last

\* the largest integer not above x2 / 2, for x2 >= 0
FloorHalves(x2) == CHOOSE t \in 0..x2 : 2 * t <= x2 /\ x2 < 2 * (t + 1)

IsDocFixedCall ==
    /\ args.raw = DocRaw /\ args.start = 0 /\ args.stop = <<>>
    /\ args.interval_x2 = 20 /\ args.id = IntMask(5)

DocFixedEvents == [k \in 1..10 |-> <<10 * (k - 1), 0, 5>>]

\* what the original and the amended statement of C11 share: the rows are
\* (t, 0, id) from the start on, every t leaves one interval before the
\* end, the 100-sample example, and the failure when nothing fits
FixedCommon ==
    /\ (err = "none") <=> (2 * FixedStart + args.interval_x2 <= 2 * FixedEnd)
    /\ (err # "none") => (err = "ValueError: No events produced" /\ out = <<>>)
    /\ (err = "none") =>
          /\ Len(out) >= 1
          /\ out[1][1] = FixedStart
          /\ \A k \in 1..Len(out) :
                /\ out[k][2] = 0 /\ out[k][3] = args.id.val
                /\ 2 * out[k][1] + args.interval_x2 <= 2 * FixedEnd
    /\ IsDocFixedCall => out = DocFixedEvents

\* C11 as stated: make_fixed_length_events with an integer id returns the
\* rows (t, 0, id) with t = start, start + interval, ..., consecutive
\* samples exactly one interval apart and t + interval <= end of the
\* recording (or the given stop), 0,10,...,90 for the 100-sample example,
\* and fails with a ValueError when no sample fits.
C11_SamplesExactlyOneIntervalApart ==
    (FixedDone /\ IntId) =>
        /\ FixedCommon
        /\ \A k \in 1..(Len(out) - 1) :
              2 * (out[k + 1][1] - out[k][1]) = args.interval_x2

\* C11 amended: the k-th returned sample is start + k * interval rounded
\* down to a whole sample, so consecutive samples are exactly one interval
\* apart when the interval is a whole number of samples and its floor or
\* its ceiling apart otherwise; the list stops only where the next sample
\* plus one interval would pass the end; the rest is as stated.
C11_SamplesOnTruncatedGrid ==
    (FixedDone /\ IntId) =>
        /\ FixedCommon
        /\ \A k \in 1..Len(out) :
              out[k][1] =
                  FloorHalves(2 * FixedStart + (k - 1) * args.interval_x2)
        /\ \A k \in 1..(Len(out) - 1) :
              LET d2 == 2 * (out[k + 1][1] - out[k][1])
              IN  /\ d2 \in {args.interval_x2 - 1, args.interval_x2,
                             args.interval_x2 + 1}
                  /\ (args.interval_x2 % 2 = 0) => (d2 = args.interval_x2)
        /\ (err = "none") =>
              2 * FloorHalves(2 * FixedStart + Len(out) * args.interval_x2)
                  + args.interval_x2 > 2 * FixedEnd

\* C11 witness: a call with an interval of 1.5 samples has returned three
\* samples, 1 and then 2 samples apart.
C11_Witness ==
    /\ FixedDone /\ IntId /\ err = "none"
    /\ args.interval_x2 = 3
    /\ Len(out) = 3
    /\ out[2][1] - out[1][1] = 1
    /\ out[3][1] - out[2][1] = 2

(***************************************************************************)
(* Claims about define_target_events (SpecTarget).                         *)
(***************************************************************************)
TargetDone == op = "define_target_events" /\ pc = "done"

WindowMin == TruncDiv(args.tmin_ms * args.sfreq, 1000)

WindowMax == TruncDiv(args.tmax_ms * args.sfreq, 1000)

\* the positions of the target-id events strictly inside the window of the
\* event at position k
TargetsOf(k) ==
    {j \in DOMAIN args.events :
        /\ args.events[j][3] = args.target_id
        /\ args.events[j][1] > args.events[k][1] + WindowMin
        /\ args.events[j][1] < args.events[k][1] + WindowMax}

IsReference(k) == args.events[k][3] = args.reference_id

\* the positions of the reference events the call is to return
ReturnedRefs ==
    Where({k \in DOMAIN args.events :
              IsReference(k) /\ (TargetsOf(k) # {} \/ args.fill_na # <<>>)})

ExpectedTargetEvents ==
    [i \in DOMAIN ReturnedRefs |->
        LET k == ReturnedRefs[i]
        IN  <<args.events[k][1], args.events[k][2],
              IF TargetsOf(k) # {}
              THEN (IF args.new_id = <<>> THEN args.reference_id
                    ELSE args.new_id[1])
              ELSE args.fill_na[1]>>]

ExpectedLags ==
    [i \in DOMAIN ReturnedRefs |->
        LET k == ReturnedRefs[i]
        IN  IF TargetsOf(k) = {} THEN <<>>
            ELSE LET first == CHOOSE j \in TargetsOf(k) :
                                  \A l \in TargetsOf(k) : j <= l
                 IN  <<(Abs(args.events[k][1] - args.events[first][1]) * 1000)
                           \div args.sfreq>>]

\* C12: define_target_events returns the reference events that have a
\* target strictly inside their window, relabeled to new_id (and with
\* fill_na set the unmatched ones too, relabeled to fill_na), and a lag list
\* with exactly one entry per returned event in the same order: the
\* absolute lag to the first target in milliseconds, a lag of 0 included,
\* or the missing-lag placeholder.
C12_LagsParallelToEvents ==
    TargetDone =>
        /\ Len(out.lag) = Len(out.events)
        /\ out.events = ExpectedTargetEvents
        /\ out.lag = ExpectedLags

(***************************************************************************)
(* Claims about concatenate_events (SpecConcat).                           *)
(***************************************************************************)
ConcatDone == op = "concatenate_events" /\ pc = "done"

SameLengths ==
    /\ Len(args.events) = Len(args.first_samps)
    /\ Len(args.events) = Len(args.last_samps)

\* the samples of the recordings before recording k:
\* the sum over j < k of (last_j - first_j + 1)
RECURSIVE SpanBefore(_)
SpanBefore(k) ==
    IF k <= 1 THEN 0
    ELSE SpanBefore(k - 1)
         + (args.last_samps[k - 1] - args.first_samps[k - 1] + 1)

\* the events of the lists before list k
RECURSIVE RowsBefore(_)
RowsBefore(k) ==
    IF k <= 1 THEN 0 ELSE RowsBefore(k - 1) + Len(args.events[k - 1])

\* C13: for N >= 1 event lists with first_samps and last_samps of the same
\* length, concatenate_events returns the lists in order, list 0 unchanged
\* and the event of list k at sample s moved to s - first_k + first_0 + the
\* samples of the recordings before k, columns 2 and 3 and the row count
\* preserved; if the three lengths disagree it fails with a ValueError.
C13_RebasedOntoPreviousRecordings ==
    (ConcatDone /\ args.events_type = "list") =>
        /\ ~SameLengths => (err = "ValueError: same lengths" /\ out = <<>>)
        /\ (SameLengths /\ Len(args.events) >= 1) =>
              /\ err = "none"
              /\ Len(out) = RowsBefore(Len(args.events) + 1)
              /\ \A j \in DOMAIN args.events[1] : out[j] = args.events[1][j]
              /\ \A k \in DOMAIN args.events :
                    \A j \in DOMAIN args.events[k] :
                        LET e == args.events[k][j]
                            o == out[RowsBefore(k) + j]
                        IN  /\ o[1] = e[1] - args.first_samps[k]
                                      + args.first_samps[1] + SpanBefore(k)
                            /\ o[2] = e[2]
                            /\ o[3] = e[3]

\* C13 witness: three recordings have been concatenated; the third starts
\* at sample 2 and its event at sample 2 has moved behind two recordings of
\* 4 and 6 samples.
C13_Witness ==
    /\ ConcatDone /\ err = "none"
    /\ Len(args.events) = 3
    /\ args.first_samps = <<0, 0, 2>>
    /\ args.last_samps = <<3, 5, 3>>
    /\ args.events[3] = <<<<2, 0, 1>>>>
    /\ Len(out) >= 1
    /\ Last(out) = <<10, 0, 1>>

(***************************************************************************)
(* Claims about write_events and read_events (SpecText).                   *)
(***************************************************************************)
TextDone == op = "write_events, read_events" /\ pc = "done"

\* the list has events and no line read_events documents as discarded: its
\* first event has a non-zero id
NoOffsetLine == Len(args.event_list) > 0 /\ args.event_list[1][3] # 0

\* C14: writing an event list with write_events to the text format and
\* reading it back with read_events (no include, no exclude, mask 0) gives
\* a list identical to the original in all three columns, in row count and
\* in order.  Stated here for the lists that have at least one event and
\* no leading line with id 0, which read_events documents as discarded.
C14_TextRoundTripIsIdentity ==
    (TextDone /\ NoOffsetLine) => (err = "none" /\ out = args.event_list)

(***************************************************************************)
(* Claims about all the operations together (Spec).                        *)
(***************************************************************************)
EventAlgebraOps ==
    {"_mask_trigs", "pick_events", "merge_events", "shift_time_events",
     "define_target_events", "concatenate_events"}

\* the transition or event list (for concatenate_events the list of event
\* lists) the caller passed
SuppliedEvents == args.events

\* C15: after any call of _mask_trigs, pick_events, merge_events,
\* shift_time_events, define_target_events or concatenate_events, whether
\* it returned or raised, the caller's list is element-wise equal to its
\* value before the call.
C15_NoOperationMutatesItsInput ==
    (pc = "done" /\ op \in EventAlgebraOps) => (after = SuppliedEvents)

(***************************************************************************)
(* Claims about the result of _mask_trigs (SpecMask).                      *)
(***************************************************************************)
\* v AND NOT m, bit by bit: a bit of v is kept where the bit of m is 0
RECURSIVE AndNot(_, _)
AndNot(v, m) ==
    IF v = 0 THEN 0
    ELSE 2 * AndNot(v \div 2, m \div 2) + (v % 2) * (1 - (m % 2))

MaskedRow(t, m) == <<t[1], AndNot(t[2], m), AndNot(t[3], m)>>

ValidMask == args.mask.type = "int" /\ args.mask.val >= 0

\* C16: for a valid mask m, _mask_trigs returns, in the original order,
\* exactly the transitions (sample, before AND NOT m, after AND NOT m) whose
\* masked before and masked after differ (7 under mask 37 becomes 2); an
\* empty input gives an empty output; and masking the result again with m
\* gives the result.
C16_MaskedTransitionsThatStillDiffer ==
    (MaskDone /\ ValidMask) =>
        LET m      == args.mask.val
            masked == [k \in DOMAIN args.events |-> MaskedRow(args.events[k], m)]
        IN  /\ err = "none"
            /\ out = Compress(masked, {k \in DOMAIN masked :
                                          masked[k][2] # masked[k][3]})
            /\ (args.events = <<>>) => (out = <<>>)
            /\ _mask_trigs(out, args.mask).err = "none"
            /\ _mask_trigs(out, args.mask).ret = out
            /\ (args.events = DocTrigs /\ args.mask = DocMask) =>
                  out = <<<<1, 0, 2>>>>

\* C16 witness: two transitions have been masked with a non-zero mask; one
\* of them was dropped and the other one returned with a changed value.
C16_Witness ==
    /\ MaskDone /\ ValidMask /\ err = "none"
    /\ args.mask.val > 0
    /\ Len(args.events) = 2
    /\ Len(out) = 1
    /\ \A k \in DOMAIN args.events : out[1] # args.events[k]

(***************************************************************************)
(* Claims about the merging of find_stim_steps (SpecSteps).                *)
(***************************************************************************)
\* the transitions before the merging: the steps of the data with the pad
\* rows
PreMerge ==
    PadStop(PadStart(RawSteps(StepInput, args.first_samp), args.pad_start),
            args.pad_stop, StepInput, args.first_samp)

\* transitions k and k + 1 are within |merge| samples of each other
Close(k) ==
    /\ k >= 1 /\ k < Len(PreMerge)
    /\ PreMerge[k + 1][1] - PreMerge[k][1] <= Abs(args.merge)

\* transition k is removed: with merge > 0 it is followed closely by the
\* next one, with merge < 0 it follows its predecessor closely
Removed(k) == IF args.merge > 0 THEN Close(k) ELSE Close(k - 1)

\* transition k after its neighbour was merged into it, with the removed
\* neighbour's value as it was before the merging
Merged(k) ==
    IF args.merge > 0 /\ Close(k - 1)
    THEN <<PreMerge[k][1], PreMerge[k - 1][2], PreMerge[k][3]>>
    ELSE IF args.merge < 0 /\ Close(k)
    THEN <<PreMerge[k][1], PreMerge[k][2], PreMerge[k + 1][3]>>
    ELSE PreMerge[k]

HasSteps == ChangedIdx(StepInput) # {}

\* C17: with merge # 0 the merging is one pass over adjacent pairs: every
\* transition within |merge| samples of its neighbour on the side the sign
\* of merge selects is removed, the neighbour takes the removed
\* transition's pre-merge before (merge > 0) or after (merge < 0) value,
\* and then every transition with before = after is dropped.  So no two
\* consecutive returned transitions are <= |merge| samples apart and no
\* returned transition has before = after.
C17_OnePassNeighbourMerge ==
    (StepsDone /\ HasSteps) =>
        /\ (args.merge # 0) =>
              out = Compress([k \in DOMAIN PreMerge |-> Merged(k)],
                             {k \in DOMAIN PreMerge :
                                 ~Removed(k) /\ Merged(k)[2] # Merged(k)[3]})
        /\ \A k \in 1..(Len(out) - 1) :
              out[k + 1][1] - out[k][1] > Abs(args.merge)
        /\ \A k \in DOMAIN out : out[k][2] # out[k][3]

\* C17 witness: three transitions, each within merge = 1 of the next; the
\* first two were removed and the returned one has the before value of the
\* second as it was before the merging, not that of the first.
C17_Witness ==
    /\ StepsDone /\ HasSteps
    /\ args.merge = 1
    /\ Len(PreMerge) = 3
    /\ Close(1) /\ Close(2)
    /\ PreMerge[1][2] # PreMerge[2][2]
    /\ Len(out) = 1
    /\ out[1] = <<PreMerge[3][1], PreMerge[2][2], PreMerge[3][3]>>

====
